---- MODULE Spec2Model ----
(***************************************************************************)
(* Model of the two stages of the VAST 2022 dashboard repository:          *)
(*   dataFiles.py    the ETL script: CSV -> cleaned table -> pickle cache  *)
(*   vast2022app.py  the dashboard: pickle cache -> aggregates -> pages    *)
(* Both are straight-line scripts; every module-level block is one action. *)
(***************************************************************************)
EXTENDS Integers, Sequences, FiniteSets, TLC

VARIABLES
    statusShards,      \* Datasets/ActivityLogs/ParticipantStatusLogs{i}.csv, i -> table
    shardsPresent,     \* shard numbers whose CSV file exists
    attributesDir,     \* Datasets/Attributes: file name -> table
    journalsDir,       \* Datasets/Journals:   file name -> table
    cache,             \* working directory: snapshot file name -> table
    writeLog,          \* snapshot file names in the order to_pickle wrote them
    etlPc,             \* position of dataFiles.py
    etlStatusLogs,     \* dataFiles.py: dfParticipantStatusLogs
    etlAttributes,     \* dataFiles.py: attributes
    etlJournals,       \* dataFiles.py: journals
    appPc,             \* position of vast2022app.py
    opened,            \* snapshot files read_pickle has read
    appStatusLogs,     \* vast2022app.py: dfParticipantStatusLogs
    appAttributes,     \* vast2022app.py: attributes
    appJournals,       \* vast2022app.py: journals
    householdKidCounts,\* vast2022app.py: householdKidCounts
    aggregates,        \* vast2022app.py: the derived views of lines 16-78
    layouts,           \* vast2022app.py: the four page layouts
    url,               \* dcc.Location "url".pathname
    pageContent        \* html.Div "pageContent".children

etlVars == <<etlPc, etlStatusLogs, etlAttributes, etlJournals>>
fsVars == <<statusShards, shardsPresent, attributesDir, journalsDir>>
appData == <<appStatusLogs, appAttributes, appJournals, householdKidCounts, aggregates, layouts>>
appVars == <<appPc, opened, appData, url, pageContent>>
vars == <<fsVars, cache, writeLog, etlVars, appVars>>

----------------------------------------------------------------------------
(* Bounds of the model *)
MaxRows == 2
MaxBody == 5
NumParticipants == 12
MaxDeviating == 3

(* Program constants *)
NumShards == 72
TopN == 10
WeightThreshold == 200

----------------------------------------------------------------------------
(* Generic helpers *)

Range(s) == {s[i] : i \in DOMAIN s}

RECURSIVE FlattenSeq(_)
FlattenSeq(ss) == IF ss = <<>> THEN <<>> ELSE Head(ss) \o FlattenSeq(Tail(ss))


Perms(S) == {p \in [1..Cardinality(S) -> S] : \A i, j \in DOMAIN p : p[i] = p[j] => i = j}

----------------------------------------------------------------------------
(* Tables of the ETL stage.  A table is [columns, rows]; a row is a tuple   *)
(* of cells aligned with columns; a cell is [k, v] with k the kind of value *)
(* ("null", "num", "text", "datetime") and v its tokens.  Column names are  *)
(* tuples of characters, file names tuples of name parts.                   *)

Cell(k, v) == [k |-> k, v |-> v]
Null == Cell("null", <<>>)
NaT == Cell("datetime", <<>>)
Num(n) == Cell("num", <<n>>)
Text(v) == Cell("text", v)
Table(columns, rows) == [columns |-> columns, rows |-> rows]

cTimestamp == <<"t","i","m","e","s","t","a","m","p">>
cStartTime == <<"s","t","a","r","t","T","i","m","e">>
cTIME == <<"T","I","M","E">>
cTimid == <<"t","i","m","i","d">>
cParticipantId == <<"p","I","d">>
cHouseholdSize == <<"h","S","i","z","e">>
cHaveKids == <<"k","i","d","s">>

Dates == {"2022-03-01", "2022-03-02"}
Times == {"08:00:00", "23:00:00"}

\* str.lower() on the characters that occur in the column names above
LowerChar(c) ==
    CASE c = "T" -> "t" [] c = "I" -> "i" [] c = "M" -> "m" [] c = "E" -> "e"
      [] c = "S" -> "s" [] OTHER -> c
Lower(s) == [i \in DOMAIN s |-> LowerChar(s[i])]

\* Python's `sub in s` on strings
Contains(s, sub) ==
    \E i \in 0..(Len(s) - Len(sub)) : \A j \in 1..Len(sub) : s[i + j] = sub[j]

\* str.endswith on a file name given as name parts
EndsWithCsv(file) == Len(file) > 0 /\ file[Len(file)] = ".csv"

\* [f for f in os.listdir(data_folder) if f.endswith('.csv')]
CsvFiles(dir) == {f \in DOMAIN dir : EndsWithCsv(f)}

\* [col for col in df.columns if "time" in col.lower()]
TimeColumns(df) == SelectSeq(df.columns, LAMBDA col : Contains(Lower(col), <<"t","i","m","e">>))

ColumnIndex(df, col) == CHOOSE i \in DOMAIN df.columns : df.columns[i] = col
Column(df, col) == [r \in DOMAIN df.rows |-> df.rows[r][ColumnIndex(df, col)]]

\* the text forms pd.to_datetime recognises among the values of the model
IsIsoZ(v) == Len(v) = 4 /\ v[1] \in Dates /\ v[2] = "T" /\ v[3] \in Times /\ v[4] = "Z"
IsDateOnly(v) == Len(v) = 1 /\ v[1] \in Dates
IsDateSpaceTime(v) == Len(v) = 3 /\ v[1] \in Dates /\ v[2] = " " /\ v[3] \in Times

\* pd.to_datetime(value) with format inference: TRUE iff it does not raise
Parseable(c) ==
    \/ c.k \in {"null", "num", "datetime"}
    \/ c.k = "text" /\ (IsIsoZ(c.v) \/ IsDateOnly(c.v) \/ IsDateSpaceTime(c.v))

to_datetime(c) ==
    CASE c.k = "null" -> NaT
      [] c.k = "datetime" -> c
      [] c.k = "num" -> Cell("datetime", <<"1970-01-01", "00:00:00", c.v[1]>>)
      [] c.k = "text" /\ IsIsoZ(c.v) -> Cell("datetime", <<c.v[1], c.v[3]>>)
      [] c.k = "text" /\ IsDateOnly(c.v) -> Cell("datetime", <<c.v[1], "00:00:00">>)
      [] c.k = "text" /\ IsDateSpaceTime(c.v) -> Cell("datetime", <<c.v[1], c.v[3]>>)

\* pd.to_datetime(value, format="%Y-%m-%dT%H:%M:%SZ")
ParseableFormat(c) == c.k \in {"null", "datetime"} \/ (c.k = "text" /\ IsIsoZ(c.v))
to_datetime_format(c) ==
    CASE c.k = "null" -> NaT
      [] c.k = "datetime" -> c
      [] c.k = "text" /\ IsIsoZ(c.v) -> Cell("datetime", <<c.v[1], c.v[3]>>)

\* df[col] = values
SetColumn(df, col, Conv(_)) ==
    LET i == ColumnIndex(df, col) IN
    Table(df.columns,
          [r \in DOMAIN df.rows |->
              [k \in DOMAIN df.rows[r] |-> IF k = i THEN Conv(df.rows[r][k]) ELSE df.rows[r][k]]])

ColumnParseable(df, col) == \A r \in DOMAIN df.rows : Parseable(Column(df, col)[r])

\* convertToDatetime raises iff one of the columns has a value to_datetime rejects
convertToDatetimeRaises(df, columns) ==
    \E i \in DOMAIN columns :
        columns[i] \in Range(df.columns) /\ ~ColumnParseable(df, columns[i])

convertToDatetimeDiscarded(df, columns) == df

RECURSIVE convertToDatetime(_, _)
convertToDatetime(df, columns) ==
    IF columns = <<>> THEN df
    ELSE LET col == Head(columns)
             next == IF col \in Range(df.columns) THEN SetColumn(df, col, to_datetime) ELSE df
         IN convertToDatetime(next, Tail(columns))

\* df.dropna(): the rows without a null cell
dropna(df) ==
    Table(df.columns, SelectSeq(df.rows, LAMBDA row : \A k \in DOMAIN row : row[k].k # "null"))

dropnaRetained(df) == dropna(df)

\* the statement `df.dropna()`: the result is computed and not bound to anything
dropnaStatement(df) == LET dropped == dropna(df) IN df

\* pd.concat(tables, ignore_index=True) of tables with the same columns
concat(tables) ==
    Table(tables[1].columns, FlattenSeq([i \in DOMAIN tables |-> tables[i].rows]))

\* groupby(['householdSize', 'haveKids']).size(): pairs without a null key -> count
GroupSizes(df) ==
    LET hs == Column(df, cHouseholdSize)
        hk == Column(df, cHaveKids)
        keys == {<<hs[r], hk[r]>> : r \in {q \in DOMAIN df.rows : hs[q].k # "null" /\ hk[q].k # "null"}}
    IN [key \in keys |-> Cardinality({r \in DOMAIN df.rows : <<hs[r], hk[r]>> = key})]

----------------------------------------------------------------------------
(* Snapshot file names *)

StatusLogsPkl == <<"processed_participant_status_logs.pkl">>
KidCountsPkl == <<"processed_household_kid_counts.pkl">>

AttributesPklWithoutExtension(file) ==
    <<"processed_">> \o SubSeq(file, 1, Len(file) - 1) \o <<"_attributes.pkl">>

\* dataFiles.py: f'processed_{name}_attributes.pkl', f'processed_{name}_journals.pkl'
etlAttributesPkl(name) == <<"processed_">> \o name \o <<"_attributes.pkl">>
etlJournalsPkl(name) == <<"processed_">> \o name \o <<"_journals.pkl">>

\* vast2022app.py: f'processed_{file}_attributes.pkl', f'processed_{file}_journals.pkl'
appAttributesPkl(file) == <<"processed_">> \o file \o <<"_attributes.pkl">>
appJournalsPkl(file) == <<"processed_">> \o file \o <<"_journals.pkl">>

ParticipantsCsv == <<"Participants", ".csv">>
JobsCsv == <<"Jobs", ".csv">>
NotesTxt == <<"notes", ".txt">>
SocialNetworkCsv == <<"SocialNetwork", ".csv">>
FinancialJournalCsv == <<"FinancialJournal", ".csv">>
BackupBak == <<"SocialNetwork", ".csv", ".bak">>
ApartmentsCsv == <<"Apartments", ".csv">>
PubsCsv == <<"Pubs", ".csv">>
RestaurantsCsv == <<"Restaurants", ".csv">>
SchoolsCsv == <<"Schools", ".csv">>

\* the working directory after to_pickle wrote `files` (name -> table)
WriteFiles(fs, files) ==
    [f \in DOMAIN fs \cup DOMAIN files |-> IF f \in DOMAIN files THEN files[f] ELSE fs[f]]

----------------------------------------------------------------------------
(* dataFiles.py *)

EmptyTable == Table(<<>>, <<>>)
NoTables == <<>>

EtlFail ==
    /\ etlPc' = "failed"
    /\ UNCHANGED <<etlStatusLogs, etlAttributes, etlJournals, cache, writeLog>>

\* lines 11-16: read the 72 shards, concatenate, dropna()
EtlLoadStatusLogs ==
    /\ etlPc = "loadStatusLogs"
    /\ IF shardsPresent = 1..NumShards
       THEN /\ etlStatusLogs' = dropnaStatement(concat([i \in 1..NumShards |-> statusShards[i]]))
            /\ etlPc' = "loadAttributes"
            /\ UNCHANGED <<etlAttributes, etlJournals, cache, writeLog>>
       ELSE EtlFail
    /\ UNCHANGED <<fsVars, appVars>>

\* lines 19-23: read every attributes CSV, dropna() on each
EtlLoadAttributes ==
    /\ etlPc = "loadAttributes"
    /\ etlAttributes' = [f \in CsvFiles(attributesDir) |-> dropnaStatement(attributesDir[f])]
    /\ etlPc' = "convertAttributes"
    /\ UNCHANGED <<etlStatusLogs, etlJournals, cache, writeLog, fsVars, appVars>>

\* the loop body of lines 26-29 and 39-42 on one table
ConvertTimeColumns(df) ==
    IF TimeColumns(df) # <<>> THEN convertToDatetime(df, TimeColumns(df)) ELSE df

ConvertTimeColumnsRaises(df) == convertToDatetimeRaises(df, TimeColumns(df))

\* lines 26-29
EtlConvertAttributes ==
    /\ etlPc = "convertAttributes"
    /\ IF \E f \in DOMAIN etlAttributes : ConvertTimeColumnsRaises(etlAttributes[f])
       THEN EtlFail
       ELSE /\ etlAttributes' = [f \in DOMAIN etlAttributes |-> ConvertTimeColumns(etlAttributes[f])]
            /\ etlPc' = "loadJournals"
            /\ UNCHANGED <<etlStatusLogs, etlJournals, cache, writeLog>>
    /\ UNCHANGED <<fsVars, appVars>>

\* lines 32-36
EtlLoadJournals ==
    /\ etlPc = "loadJournals"
    /\ etlJournals' = [f \in CsvFiles(journalsDir) |-> dropnaStatement(journalsDir[f])]
    /\ etlPc' = "convertJournals"
    /\ UNCHANGED <<etlStatusLogs, etlAttributes, cache, writeLog, fsVars, appVars>>

\* lines 39-42
EtlConvertJournals ==
    /\ etlPc = "convertJournals"
    /\ IF \E f \in DOMAIN etlJournals : ConvertTimeColumnsRaises(etlJournals[f])
       THEN EtlFail
       ELSE /\ etlJournals' = [f \in DOMAIN etlJournals |-> ConvertTimeColumns(etlJournals[f])]
            /\ etlPc' = "convertTimestamp"
            /\ UNCHANGED <<etlStatusLogs, etlAttributes, cache, writeLog>>
    /\ UNCHANGED <<fsVars, appVars>>

\* line 45
EtlConvertTimestamp ==
    /\ etlPc = "convertTimestamp"
    /\ IF /\ cTimestamp \in Range(etlStatusLogs.columns)
          /\ \A r \in DOMAIN etlStatusLogs.rows : ParseableFormat(Column(etlStatusLogs, cTimestamp)[r])
       THEN /\ etlStatusLogs' = SetColumn(etlStatusLogs, cTimestamp, to_datetime_format)
            /\ etlPc' = "save"
            /\ UNCHANGED <<etlAttributes, etlJournals, cache, writeLog>>
       ELSE EtlFail
    /\ UNCHANGED <<fsVars, appVars>>

\* lines 48-52: the status log, then every attributes table, then every journals
\* table, each dictionary in its own (directory listing) order
EtlSave ==
    /\ etlPc = "save"
    /\ \E attributeOrder \in Perms(DOMAIN etlAttributes), journalOrder \in Perms(DOMAIN etlJournals) :
         LET written ==
                [n \in {StatusLogsPkl}
                        \cup {etlAttributesPkl(f) : f \in DOMAIN etlAttributes}
                        \cup {etlJournalsPkl(f) : f \in DOMAIN etlJournals} |->
                    IF \E f \in DOMAIN etlJournals : n = etlJournalsPkl(f)
                    THEN etlJournals[CHOOSE f \in DOMAIN etlJournals : n = etlJournalsPkl(f)]
                    ELSE IF \E f \in DOMAIN etlAttributes : n = etlAttributesPkl(f)
                    THEN etlAttributes[CHOOSE f \in DOMAIN etlAttributes : n = etlAttributesPkl(f)]
                    ELSE etlStatusLogs]
         IN /\ cache' = WriteFiles(cache, written)
            /\ writeLog' = writeLog \o <<StatusLogsPkl>>
                              \o [i \in DOMAIN attributeOrder |-> etlAttributesPkl(attributeOrder[i])]
                              \o [i \in DOMAIN journalOrder |-> etlJournalsPkl(journalOrder[i])]
    /\ etlPc' = "saveKidCounts"
    /\ UNCHANGED <<etlStatusLogs, etlAttributes, etlJournals, fsVars, appVars>>

\* lines 55-56
EtlSaveKidCounts ==
    /\ etlPc = "saveKidCounts"
    /\ IF /\ ParticipantsCsv \in DOMAIN etlAttributes
          /\ {cHouseholdSize, cHaveKids} \subseteq Range(etlAttributes[ParticipantsCsv].columns)
       THEN /\ cache' = WriteFiles(cache, [n \in {KidCountsPkl} |-> GroupSizes(etlAttributes[ParticipantsCsv])])
            /\ writeLog' = Append(writeLog, KidCountsPkl)
            /\ etlPc' = "done"
            /\ UNCHANGED <<etlStatusLogs, etlAttributes, etlJournals>>
       ELSE EtlFail
    /\ UNCHANGED <<fsVars, appVars>>

----------------------------------------------------------------------------
(* vast2022app.py: loading the snapshots *)

AppServesAnyway ==
    /\ appPc' = "serving"
    /\ UNCHANGED <<appData, url, pageContent>>

\* an exception at module level ends the process
AppAbort ==
    /\ appPc' = "aborted"
    /\ UNCHANGED <<appData, url, pageContent>>

\* lines 10-15: read_pickle of the status log, of one snapshot per CSV file of
\* Datasets/Attributes, of one per CSV file of Datasets/Journals (each directory
\* in its listing order), and of the household kid counts; the first absent
\* file raises FileNotFoundError
AppLoadCache ==
    /\ appPc = "import"
    /\ LET reads == <<{StatusLogsPkl},
                      {appAttributesPkl(f) : f \in CsvFiles(attributesDir)},
                      {appJournalsPkl(f) : f \in CsvFiles(journalsDir)},
                      {KidCountsPkl}>>
           failing == {k \in DOMAIN reads : ~(reads[k] \subseteq DOMAIN cache)}
       IN IF failing = {}
          THEN /\ opened' = UNION Range(reads)
               /\ appStatusLogs' = cache[StatusLogsPkl]
               /\ appAttributes' = [f \in CsvFiles(attributesDir) |-> cache[appAttributesPkl(f)]]
               /\ appJournals' = [f \in CsvFiles(journalsDir) |-> cache[appJournalsPkl(f)]]
               /\ householdKidCounts' = cache[KidCountsPkl]
               /\ appPc' = "loaded"
               /\ UNCHANGED <<aggregates, layouts, url, pageContent>>
          ELSE LET first == CHOOSE k \in failing : \A m \in failing : k <= m
               IN /\ \E found \in SUBSET (reads[first] \cap DOMAIN cache) :
                        opened' = UNION {reads[k] : k \in 1..(first - 1)} \cup found
                  /\ AppAbort
    /\ UNCHANGED <<fsVars, cache, writeLog, etlVars>>

NoPath == "None"
NoAggregates ==
    [kidCounts |-> <<>>, dfAgeVsIncome |-> <<>>, pivotDf |-> <<>>, edgesWithFrequency |-> {},
     participantInteractions |-> <<>>, topParticipants |-> <<>>, filteredEdges |-> {}, nodes |-> {},
     elements |-> {}, degreeCounts |-> <<>>, combined |-> <<>>, finalDf |-> <<>>]
NoDocument == <<>>

AppNotStarted ==
    /\ appPc = "import"
    /\ opened = {}
    /\ appStatusLogs = EmptyTable
    /\ appAttributes = NoTables
    /\ appJournals = NoTables
    /\ householdKidCounts = <<>>
    /\ aggregates = NoAggregates
    /\ layouts = <<>>
    /\ url = NoPath
    /\ pageContent = NoDocument

EtlNotStarted ==
    /\ etlPc = "loadStatusLogs"
    /\ etlStatusLogs = EmptyTable
    /\ etlAttributes = NoTables
    /\ etlJournals = NoTables

----------------------------------------------------------------------------
(* The input families of the ETL stage *)

TextIsoZ == Text(<<"2022-03-01", "T", "08:00:00", "Z">>)
TextDateOnly == Text(<<"2022-03-02">>)
TextBad == Text(<<"bad">>)

Values == {TextIsoZ, TextDateOnly, TextBad}

\* the tables with one more column `col` holding `v` or null, at most MaxRows rows
VariedTables(leadColumns, leads, leadOk, col, v) ==
    LET choices == {lead \o <<v>> : lead \in leads} \cup {leadOk \o <<Null>>}
    IN {Table(leadColumns \o <<col>>, rows) : rows \in UNION {[1..n -> choices] : n \in 0..MaxRows}}

DefaultShard(i) == Table(<<cTimestamp, cParticipantId>>, <<<<TextIsoZ, Num(ToString(i))>>>>)
DefaultParticipants == Table(<<cHouseholdSize, cHaveKids>>, <<<<Num("2"), Text(<<"True">>)>>>>)
DefaultJobs == Table(<<cParticipantId, cStartTime>>, <<<<Num("1"), TextDateOnly>>>>)
DefaultSocialNetwork == Table(<<cParticipantId, cTimestamp>>, <<<<Num("1"), TextIsoZ>>>>)

DefaultAttributesDir == [f \in {ParticipantsCsv, JobsCsv} |-> IF f = JobsCsv THEN DefaultJobs ELSE DefaultParticipants]
DefaultJournalsDir == [f \in {SocialNetworkCsv} |-> DefaultSocialNetwork]

EtlInput(shards, present, attrs, jours) ==
    [statusShards |-> shards, shardsPresent |-> present, attributesDir |-> attrs, journalsDir |-> jours]

\* the last shard varied, every other shard with one row of its own
StatusInputs ==
    UNION {UNION {{EtlInput([i \in 1..NumShards |->
                                IF i = NumShards THEN t
                                ELSE Table(<<cParticipantId, cTimestamp, col>>, <<<<Num(ToString(i)), TextIsoZ, v>>>>)],
                            1..NumShards, DefaultAttributesDir, DefaultJournalsDir) :
                      t \in VariedTables(<<cParticipantId, cTimestamp>>,
                                         {<<Num("0"), TextIsoZ>>, <<Num("0"), TextDateOnly>>},
                                         <<Num("0"), TextIsoZ>>, col, v)} :
                  col \in {cStartTime, cTimid}} : v \in {TextIsoZ, TextBad}}

\* the Participants table varied
AttributesInputs ==
    UNION {UNION {{EtlInput([i \in 1..NumShards |-> DefaultShard(i)], 1..NumShards,
                            [f \in {ParticipantsCsv, JobsCsv} |-> IF f = JobsCsv THEN DefaultJobs ELSE t],
                            DefaultJournalsDir) :
                      t \in VariedTables(<<cHouseholdSize, cHaveKids>>,
                                         {<<Num("2"), Text(<<"True">>)>>, <<Null, Text(<<"False">>)>>},
                                         <<Num("3"), Text(<<"True">>)>>, col, v)} :
                  col \in {cTIME, cTimid, cTimestamp}} : v \in Values}

\* the SocialNetwork journal varied
JournalsInputs ==
    UNION {UNION {{EtlInput([i \in 1..NumShards |-> DefaultShard(i)], 1..NumShards, DefaultAttributesDir,
                            [f \in {SocialNetworkCsv} |-> t]) :
                      t \in VariedTables(<<cParticipantId>>, {<<Num("1")>>, <<Null>>}, <<Num("2")>>, col, v)} :
                  col \in {cStartTime, cTimid}} : v \in Values}

\* the directories varied: files that are no CSV, a missing Participants.csv, a missing shard
DirectoryInputs ==
    {EtlInput([i \in 1..NumShards |-> DefaultShard(i)], present, attrs, jours) :
        present \in {1..NumShards, (1..NumShards) \ {1}, (1..NumShards) \ {NumShards}},
        attrs \in {DefaultAttributesDir,
                   [f \in {ParticipantsCsv} |-> DefaultParticipants],
                   [f \in {JobsCsv} |-> DefaultJobs],
                   [f \in {ParticipantsCsv, NotesTxt} |-> DefaultParticipants]},
        jours \in {DefaultJournalsDir,
                   [f \in {SocialNetworkCsv, FinancialJournalCsv} |-> DefaultSocialNetwork],
                   [f \in {SocialNetworkCsv, BackupBak} |-> DefaultSocialNetwork],
                   [f \in {BackupBak} |-> DefaultSocialNetwork]}}

EtlInputs == StatusInputs \cup AttributesInputs \cup JournalsInputs \cup DirectoryInputs

InitEtl ==
    /\ \E input \in EtlInputs :
         /\ statusShards = input.statusShards
         /\ shardsPresent = input.shardsPresent
         /\ attributesDir = input.attributesDir
         /\ journalsDir = input.journalsDir
    /\ cache = <<>>
    /\ writeLog = <<>>
    /\ EtlNotStarted
    /\ AppNotStarted

NextEtl ==
    \/ EtlLoadStatusLogs
    \/ EtlLoadAttributes
    \/ EtlConvertAttributes
    \/ EtlLoadJournals
    \/ EtlConvertJournals
    \/ EtlConvertTimestamp
    \/ EtlSave
    \/ EtlSaveKidCounts
    \/ AppLoadCache

SpecEtl == InitEtl /\ [][NextEtl]_vars

----------------------------------------------------------------------------
(* vast2022app.py: the derived views.  The tables of the dashboard are       *)
(* sequences of records named after their columns.  A row of SocialNetwork   *)
(* stands for `events` consecutive CSV rows with the same pair of            *)
(* participants.  Location strings are tuples of characters.                 *)

NaN == "NaN"
\* NaN in a column of text: a part that no text has
NaNText == <<"NaN">>
\* NaN in a column of floats
NaNFloat == [mantissa |-> 0, scale |-> -1]

RECURSIVE SumOver(_, _)
SumOver(S, f) ==
    IF S = {} THEN 0
    ELSE LET x == CHOOSE y \in S : TRUE IN f[x] + SumOver(S \ {x}, f)

SetAggregates(fields) ==
    [k \in DOMAIN aggregates |-> IF k \in DOMAIN fields THEN fields[k] ELSE aggregates[k]]

\* line 16: value_counts() of a column
ValueCounts(values) ==
    [v \in Range(values) |-> Cardinality({i \in DOMAIN values : values[i] = v})]

\* lines 17-18: inner join on participantId, then the rows of category "Wage"
AgeVsIncome(participants, financialJournal) ==
    LET joined == FlattenSeq([i \in DOMAIN participants |->
                      LET matching == SelectSeq(financialJournal,
                                                LAMBDA j : j.participantId = participants[i].participantId)
                      IN [k \in DOMAIN matching |->
                             [participantId |-> participants[i].participantId,
                              age |-> participants[i].age,
                              category |-> matching[k].category,
                              amount |-> matching[k].amount]]])
    IN SelectSeq(joined, LAMBDA row : row.category = "Wage")

Bins == <<20, 30, 40, 50>>
Labels == <<"20-29", "30-39", "40-49">>

\* line 19: pd.cut(age, bins=[20, 30, 40, 50], labels=[...]); the intervals of
\* pd.cut are open on the left and closed on the right (right=True)
cut(x) ==
    IF \E i \in DOMAIN Labels : Bins[i] < x /\ x <= Bins[i + 1]
    THEN Labels[CHOOSE i \in DOMAIN Labels : Bins[i] < x /\ x <= Bins[i + 1]]
    ELSE NaN

WithAgeGroup(row) ==
    [participantId |-> row.participantId, age |-> row.age, haveKids |-> row.haveKids,
     educationLevel |-> row.educationLevel, ageGroup |-> cut(row.age)]

\* line 20: the number of participants per age group and education level, a row
\* for every age group, rows without an age group left out
PivotTable(participants) ==
    LET grouped == {i \in DOMAIN participants : participants[i].ageGroup # NaN}
        levels == {participants[i].educationLevel : i \in grouped}
    IN [g \in Range(Labels) |->
           [e \in levels |->
               Cardinality({i \in grouped : participants[i].ageGroup = g
                                            /\ participants[i].educationLevel = e})]]

\* lines 16-20
AppComputeParticipantViews ==
    /\ appPc = "loaded"
    /\ IF ParticipantsCsv \in DOMAIN appAttributes /\ FinancialJournalCsv \in DOMAIN appJournals
       THEN LET participants == appAttributes[ParticipantsCsv]
                withAgeGroup == [i \in DOMAIN participants |-> WithAgeGroup(participants[i])]
            IN /\ appAttributes' = [appAttributes EXCEPT ![ParticipantsCsv] = withAgeGroup]
               /\ aggregates' = SetAggregates(
                     [kidCounts |-> ValueCounts([i \in DOMAIN participants |-> participants[i].haveKids]),
                      dfAgeVsIncome |-> AgeVsIncome(participants, appJournals[FinancialJournalCsv]),
                      pivotDf |-> PivotTable(withAgeGroup)])
               /\ appPc' = "participantViews"
               /\ UNCHANGED <<appStatusLogs, appJournals, householdKidCounts, layouts, url, pageContent>>
       ELSE AppAbort
    /\ UNCHANGED <<fsVars, cache, writeLog, etlVars, opened>>

\* line 23: groupby(['participantIdFrom', 'participantIdTo']).size()
EdgesWithFrequency(socialNetwork) ==
    LET pairs == {<<socialNetwork[i].participantIdFrom, socialNetwork[i].participantIdTo>> :
                     i \in {k \in DOMAIN socialNetwork : socialNetwork[k].events > 0}}
        events == [i \in DOMAIN socialNetwork |-> socialNetwork[i].events]
    IN {[participantIdFrom |-> pair[1], participantIdTo |-> pair[2],
         weight |-> SumOver({i \in DOMAIN socialNetwork :
                                <<socialNetwork[i].participantIdFrom, socialNetwork[i].participantIdTo>> = pair},
                            events)] : pair \in pairs}

RECURSIVE Ascending(_)
Ascending(S) ==
    IF S = {} THEN <<>>
    ELSE LET least == CHOOSE x \in S : \A y \in S : x <= y IN <<least>> \o Ascending(S \ {least})

RECURSIVE TotalWeights(_, _)
TotalWeights(senders, edges) ==
    IF senders = <<>> THEN <<>>
    ELSE <<[participantId |-> Head(senders),
            totalWeight |-> SumOver({e \in edges : e.participantIdFrom = Head(senders)},
                                    [e \in edges |-> e.weight])]>>
         \o TotalWeights(Tail(senders), edges)

\* line 26: groupby('participantIdFrom')['weight'].sum().reset_index(): a row
\* per sender, in ascending order of the sender
ParticipantInteractions(edges) ==
    TotalWeights(Ascending({e.participantIdFrom : e \in edges}), edges)

Without(rows, i) == SubSeq(rows, 1, i - 1) \o SubSeq(rows, i + 1, Len(rows))

RECURSIVE nlargestKeepLast(_, _)
nlargestKeepLast(n, rows) ==
    IF n = 0 \/ rows = <<>> THEN <<>>
    ELSE LET i == CHOOSE k \in DOMAIN rows : \A j \in DOMAIN rows :
                      \/ rows[j].totalWeight < rows[k].totalWeight
                      \/ rows[j].totalWeight = rows[k].totalWeight /\ j <= k
         IN <<rows[i].participantId>> \o nlargestKeepLast(n - 1, Without(rows, i))

\* line 29: nlargest(n, 'totalWeight')['participantId'] (keep='first'): the n
\* rows of the largest totalWeight, in descending order; among rows of the same
\* totalWeight the one that comes first in the table goes first
RECURSIVE nlargest(_, _)
nlargest(n, rows) ==
    IF n = 0 \/ rows = <<>> THEN <<>>
    ELSE LET i == CHOOSE k \in DOMAIN rows : \A j \in DOMAIN rows :
                      \/ rows[j].totalWeight < rows[k].totalWeight
                      \/ rows[j].totalWeight = rows[k].totalWeight /\ k <= j
         IN <<rows[i].participantId>> \o nlargest(n - 1, Without(rows, i))

FilterEdgesByWeightOnly(edges, topParticipants) ==
    {e \in edges : e.weight > WeightThreshold}

\* lines 32-36: the edges with an endpoint among the top participants, then
\* those of weight > 200
FilterEdges(edges, topParticipants) ==
    LET top == Range(topParticipants)
        touching == {e \in edges : e.participantIdFrom \in top \/ e.participantIdTo \in top}
    IN {e \in touching : e.weight > WeightThreshold}

\* line 39
Nodes(edges) == {e.participantIdFrom : e \in edges} \cup {e.participantIdTo : e \in edges}

\* lines 40-49: one element per node, then one per edge
Elements(nodes, edges) ==
    {[data |-> [id |-> ToString(node), label |-> <<"Participant ", ToString(node)>>]] : node \in nodes}
    \cup {[data |-> [source |-> ToString(e.participantIdFrom), target |-> ToString(e.participantIdTo),
                     weight |-> e.weight]] : e \in edges}

\* lines 23-49, each view computed once, in the order of the script
AppBuildSocialGraph ==
    /\ appPc = "participantViews"
    /\ IF SocialNetworkCsv \in DOMAIN appJournals
       THEN \E edgesWithFrequency \in {EdgesWithFrequency(appJournals[SocialNetworkCsv])} :
            \E participantInteractions \in {ParticipantInteractions(edgesWithFrequency)} :
            \E topParticipants \in {nlargest(TopN, participantInteractions)} :
            \E filteredEdges \in {FilterEdges(edgesWithFrequency, topParticipants)} :
            \E nodes \in {Nodes(filteredEdges)} :
               /\ aggregates' = SetAggregates(
                     [edgesWithFrequency |-> edgesWithFrequency,
                      participantInteractions |-> participantInteractions,
                      topParticipants |-> topParticipants,
                      filteredEdges |-> filteredEdges,
                      nodes |-> nodes,
                      elements |-> Elements(nodes, filteredEdges)])
               /\ appPc' = "socialGraph"
               /\ UNCHANGED <<appStatusLogs, appAttributes, appJournals, householdKidCounts,
                              layouts, url, pageContent>>
       ELSE AppAbort
    /\ UNCHANGED <<fsVars, cache, writeLog, etlVars, opened>>

\* line 53: value_counts() of the education requirement of the jobs
DegreeCounts(jobs) == ValueCounts([i \in DOMAIN jobs |-> jobs[i].educationRequirement])

\* lines 56-57, 59-60, 62-63, 65-66: the location column with the building type
Tagged(table, buildingType) ==
    [i \in DOMAIN table |-> [location |-> table[i].location, buildingType |-> buildingType]]

StripChars == {"P", "O", "I", "N", "T", " ", "(", ")"}

RECURSIVE lstrip(_, _)
lstrip(s, chars) == IF s # <<>> /\ Head(s) \in chars THEN lstrip(Tail(s), chars) ELSE s

RECURSIVE rstrip(_, _)
rstrip(s, chars) ==
    IF s # <<>> /\ s[Len(s)] \in chars THEN rstrip(SubSeq(s, 1, Len(s) - 1), chars) ELSE s

\* str.strip(chars): the characters of `chars` removed from both ends
strip(s, chars) == rstrip(lstrip(s, chars), chars)

\* str.split(sep) with a separator of one character: empty parts are kept
RECURSIVE split(_, _)
split(s, sep) ==
    IF \E i \in DOMAIN s : s[i] = sep
    THEN LET i == CHOOSE k \in DOMAIN s : s[k] = sep /\ \A m \in 1..(k - 1) : s[m] # sep
         IN <<SubSeq(s, 1, i - 1)>> \o split(SubSeq(s, i + 1, Len(s)), sep)
    ELSE <<s>>

\* .str[i] of a column of lists: NaN where the list is too short
StrGet(parts, i) == IF i + 1 \in DOMAIN parts THEN parts[i + 1] ELSE NaNText

Digits == {"0", "1", "2", "3", "4", "5", "6", "7", "8", "9"}
DigitValue(c) ==
    CASE c = "0" -> 0 [] c = "1" -> 1 [] c = "2" -> 2 [] c = "3" -> 3 [] c = "4" -> 4
      [] c = "5" -> 5 [] c = "6" -> 6 [] c = "7" -> 7 [] c = "8" -> 8 [] c = "9" -> 9

\* float(text) accepts, over the characters of the model, digits with at most
\* one point and at least one digit; astype(float) leaves NaN as it is
IsFloatText(t) ==
    /\ t # NaNText
    /\ \A i \in DOMAIN t : t[i] \in Digits \cup {"."}
    /\ Cardinality({i \in DOMAIN t : t[i] = "."}) <= 1
    /\ \E i \in DOMAIN t : t[i] \in Digits

AsFloatRaises(t) == t # NaNText /\ ~IsFloatText(t)

RECURSIVE Mantissa(_)
Mantissa(digits) ==
    IF digits = <<>> THEN 0
    ELSE 10 * Mantissa(SubSeq(digits, 1, Len(digits) - 1)) + DigitValue(digits[Len(digits)])

\* the value of a float: mantissa / 10^scale
AsFloat(t) ==
    IF t = NaNText THEN NaNFloat
    ELSE LET point == IF \E i \in DOMAIN t : t[i] = "." THEN CHOOSE i \in DOMAIN t : t[i] = "." ELSE Len(t) + 1
         IN [mantissa |-> Mantissa(SelectSeq(t, LAMBDA c : c # ".")),
             scale |-> IF point > Len(t) THEN 0 ELSE Len(t) - point]

\* line 71
LocationClean(location) == strip(location, StripChars)

\* lines 74-75 raise ValueError on a row
CoordinatesRaise(location) ==
    LET parts == split(LocationClean(location), " ")
    IN AsFloatRaises(StrGet(parts, 0)) \/ AsFloatRaises(StrGet(parts, 1))

\* lines 71-78 on one row
FinalRow(row) ==
    LET parts == split(LocationClean(row.location), " ")
    IN [x |-> AsFloat(StrGet(parts, 0)), y |-> AsFloat(StrGet(parts, 1)), buildingType |-> row.buildingType]

BuildingFiles == <<ApartmentsCsv, PubsCsv, RestaurantsCsv, SchoolsCsv>>
BuildingTypes == <<"apartment", "pub", "restaurant", "school">>

\* lines 53-78
AppBuildLocations ==
    /\ appPc = "socialGraph"
    /\ IF {JobsCsv} \cup Range(BuildingFiles) \subseteq DOMAIN appAttributes
       THEN LET combined == FlattenSeq([i \in DOMAIN BuildingFiles |->
                                Tagged(appAttributes[BuildingFiles[i]], BuildingTypes[i])])
            IN IF \E i \in DOMAIN combined : CoordinatesRaise(combined[i].location)
               THEN AppAbort
               ELSE /\ aggregates' = SetAggregates(
                          [degreeCounts |-> DegreeCounts(appAttributes[JobsCsv]),
                           combined |-> combined,
                           finalDf |-> [i \in DOMAIN combined |-> FinalRow(combined[i])]])
                    /\ appPc' = "locations"
                    /\ UNCHANGED <<appStatusLogs, appAttributes, appJournals, householdKidCounts,
                                   layouts, url, pageContent>>
       ELSE AppAbort
    /\ UNCHANGED <<fsVars, cache, writeLog, etlVars, opened>>

Page(title, content) == [title |-> title, content |-> content]

\* lines 101-382: the four page layouts, each a heading and the charts of its views
Layouts ==
    [homePage |-> Page("Welcome to the Data Insights Dashboard", <<>>),
     participantDashboardLayout |->
         Page("Participant Dashboard",
              <<aggregates.kidCounts, appAttributes[ParticipantsCsv], aggregates.dfAgeVsIncome,
                householdKidCounts, aggregates.pivotDf>>),
     socialActivityDashboardLayout |-> Page("Social Activity Dashboard", <<aggregates.elements>>),
     businessDashboard |-> Page("Business Dashboard", <<aggregates.degreeCounts, aggregates.finalDf>>)]

\* lines 81-382: the Dash app and the four page layouts, built from the views
AppBuildLayouts ==
    /\ appPc = "locations"
    /\ layouts' = Layouts
    /\ appPc' = "layouts"
    /\ UNCHANGED <<appStatusLogs, appAttributes, appJournals, householdKidCounts, aggregates,
                   url, pageContent>>
    /\ UNCHANGED <<fsVars, cache, writeLog, etlVars, opened>>

\* lines 401-402
AppRunServer ==
    /\ appPc = "layouts"
    /\ appPc' = "serving"
    /\ UNCHANGED <<appData, url, pageContent>>
    /\ UNCHANGED <<fsVars, cache, writeLog, etlVars, opened>>

Paths == {"/", "/participantDashboard", "/socialActivityDashboard", "/businessDashboard", "/unknown", NoPath}

displayPageBusinessUnrouted(pathname) ==
    IF pathname = "/participantDashboard" THEN layouts.participantDashboardLayout
    ELSE IF pathname = "/socialActivityDashboard" THEN layouts.socialActivityDashboardLayout
    ELSE layouts.homePage

\* lines 390-398
displayPage(pathname) ==
    IF pathname = "/participantDashboard" THEN layouts.participantDashboardLayout
    ELSE IF pathname = "/socialActivityDashboard" THEN layouts.socialActivityDashboardLayout
    ELSE IF pathname = "/businessDashboard" THEN layouts.businessDashboard
    ELSE layouts.homePage

DisplayPageKeepingLast ==
    /\ appPc = "serving"
    /\ \E pathname \in Paths :
         /\ url' = pathname
         /\ pageContent' = displayPage(pathname)
         /\ layouts' = [layouts EXCEPT !.homePage = displayPage(pathname)]
    /\ UNCHANGED <<appPc, appStatusLogs, appAttributes, appJournals, householdKidCounts, aggregates>>
    /\ UNCHANGED <<fsVars, cache, writeLog, etlVars, opened>>

\* lines 386-398: the callback on the pathname of "url", its result the
\* children of "pageContent"
DisplayPage ==
    /\ appPc = "serving"
    /\ \E pathname \in Paths :
         /\ url' = pathname
         /\ pageContent' = displayPage(pathname)
    /\ UNCHANGED <<appPc, appData>>
    /\ UNCHANGED <<fsVars, cache, writeLog, etlVars, opened>>

\* the start of the dashboard, up to the first request
NextStartup ==
    \/ AppLoadCache
    \/ AppComputeParticipantViews
    \/ AppBuildSocialGraph
    \/ AppBuildLocations
    \/ AppBuildLayouts
    \/ AppRunServer

NextApp ==
    \/ AppLoadCache
    \/ AppComputeParticipantViews
    \/ AppBuildSocialGraph
    \/ AppBuildLocations
    \/ AppBuildLayouts
    \/ AppRunServer
    \/ DisplayPage

----------------------------------------------------------------------------
(* Properties of the ETL stage, checked under SpecEtl *)

IsTimeColumn(col) == Contains(Lower(col), <<"t","i","m","e">>)

AllDatetime(df, col) == \A r \in DOMAIN df.rows : Column(df, col)[r].k = "datetime"

IsAttributesSnapshot(n) == \E f \in CsvFiles(attributesDir) : n = etlAttributesPkl(f)
IsJournalsSnapshot(n) == \E f \in CsvFiles(journalsDir) : n = etlJournalsPkl(f)

\* a CSV table the ETL stage loads has a value to_datetime rejects in a time column
BadTimeValue(df) ==
    \E i \in DOMAIN df.columns :
        IsTimeColumn(df.columns[i]) /\ \E r \in DOMAIN df.rows : ~Parseable(df.rows[r][i])

BadTimestamp(df) ==
    \E i \in DOMAIN df.columns :
        df.columns[i] = cTimestamp /\ \E r \in DOMAIN df.rows : ~ParseableFormat(df.rows[r][i])

SomeBadAttributesOrJournals ==
    \/ \E f \in CsvFiles(attributesDir) : BadTimeValue(attributesDir[f])
    \/ \E f \in CsvFiles(journalsDir) : BadTimeValue(journalsDir[f])

SameRow(out, in) ==
    /\ DOMAIN out = DOMAIN in
    /\ \A k \in DOMAIN in :
          IF in[k].k = "null" THEN out[k] \in {Null, NaT}
          ELSE out[k] = in[k] \/ out[k].k = "datetime"

SameRows(out, in) ==
    /\ out.columns = in.columns
    /\ Len(out.rows) = Len(in.rows)
    /\ \A r \in DOMAIN in.rows : SameRow(out.rows[r], in.rows[r])

HasNullRow(df) == \E r \in DOMAIN df.rows : \E k \in DOMAIN df.rows[r] : df.rows[r][k].k = "null"

EtlTablesReady ==
    /\ DOMAIN etlAttributes = CsvFiles(attributesDir)
    /\ DOMAIN etlJournals = CsvFiles(journalsDir)
    /\ \A f \in DOMAIN etlAttributes : \A i \in DOMAIN etlAttributes[f].columns :
          IsTimeColumn(etlAttributes[f].columns[i]) => AllDatetime(etlAttributes[f], etlAttributes[f].columns[i])
    /\ \A f \in DOMAIN etlJournals : \A i \in DOMAIN etlJournals[f].columns :
          IsTimeColumn(etlJournals[f].columns[i]) => AllDatetime(etlJournals[f], etlJournals[f].columns[i])
    /\ Len(etlStatusLogs.rows) >= NumShards - 1
    /\ AllDatetime(etlStatusLogs, cTimestamp)

\* C10: a dashboard started after a finished ETL run finds every snapshot it
\* opens, and each is one the run wrote; the first snapshot is written only
\* when every load and conversion has succeeded; the household kid counts are
\* written last.
C10_StagesAgreeOnFiles ==
    /\ [][(etlPc = "done" /\ appPc = "import" /\ appPc' # "import")
              => (appPc' = "loaded" /\ opened' # {} /\ opened' \subseteq Range(writeLog))]_vars
    /\ [][(writeLog = <<>> /\ writeLog' # <<>>) => (etlPc = "save" /\ EtlTablesReady)]_vars
    /\ [](KidCountsPkl \in Range(writeLog) => etlPc = "done")
    /\ [](etlPc = "done" =>
            /\ writeLog[Len(writeLog)] = KidCountsPkl
            /\ \A i \in 1..(Len(writeLog) - 1) : writeLog[i] # KidCountsPkl)

\* C10 witness: the dashboard loaded its snapshots after a finished run over
\* directories that hold two CSV files, or a file that is no CSV
C10_Witness ==
    /\ etlPc = "done"
    /\ appPc = "loaded"
    /\ \/ Cardinality(CsvFiles(attributesDir)) = 2 /\ Cardinality(CsvFiles(journalsDir)) = 2
       \/ NotesTxt \in DOMAIN attributesDir

----------------------------------------------------------------------------
(* The input families of the dashboard: the snapshots a finished ETL run     *)
(* left in the working directory, and the two dataset directories            *)

AppParticipants == <<[participantId |-> 1, age |-> 25, haveKids |-> TRUE, educationLevel |-> "Bachelors"]>>
AppFinancialJournal ==
    <<[participantId |-> 1, category |-> "Wage", amount |-> 100],
      [participantId |-> 1, category |-> "Food", amount |-> 5]>>
AppSocialNetwork ==
    <<[participantIdFrom |-> 1, participantIdTo |-> 2, events |-> 201],
      [participantIdFrom |-> 2, participantIdTo |-> 1, events |-> 200]>>
AppJobs == <<[educationRequirement |-> "Bachelors"]>>

Location(body) == <<"P", "O", "I", "N", "T", " ", "(">> \o body \o <<")">>
AppBuildings == [f \in Range(BuildingFiles) |-> <<[location |-> Location(<<"1", ".", "5", " ", "7">>)]>>]

AppAttributeTables(participants, buildings) ==
    [f \in {ParticipantsCsv, JobsCsv} \cup Range(BuildingFiles) |->
        IF f = ParticipantsCsv THEN participants
        ELSE IF f = JobsCsv THEN AppJobs
        ELSE buildings[f]]

AppJournalTables(socialNetwork) ==
    [f \in {SocialNetworkCsv, FinancialJournalCsv} |->
        IF f = SocialNetworkCsv THEN socialNetwork ELSE AppFinancialJournal]

\* the working directory after an ETL run over these tables
Snapshots(attrs, jours) ==
    [n \in {StatusLogsPkl, KidCountsPkl}
            \cup {etlAttributesPkl(f) : f \in DOMAIN attrs}
            \cup {etlJournalsPkl(f) : f \in DOMAIN jours} |->
        IF \E f \in DOMAIN attrs : n = etlAttributesPkl(f)
        THEN attrs[CHOOSE f \in DOMAIN attrs : n = etlAttributesPkl(f)]
        ELSE IF \E f \in DOMAIN jours : n = etlJournalsPkl(f)
        THEN jours[CHOOSE f \in DOMAIN jours : n = etlJournalsPkl(f)]
        ELSE IF n = StatusLogsPkl THEN EmptyTable
        ELSE <<>>]

\* the dashboard about to start: snapshot files `files`, CSV files `csvA`, `csvJ`
AppStartsWith(attrs, jours, files, csvA, csvJ) ==
    /\ statusShards = <<>>
    /\ shardsPresent = {}
    /\ attributesDir = [f \in csvA |-> EmptyTable]
    /\ journalsDir = [f \in csvJ |-> EmptyTable]
    /\ cache = [n \in files |-> Snapshots(attrs, jours)[n]]
    /\ writeLog = <<>>
    /\ etlPc = "done"
    /\ etlStatusLogs = EmptyTable
    /\ etlAttributes = NoTables
    /\ etlJournals = NoTables
    /\ AppNotStarted

AppStartsComplete(attrs, jours) ==
    AppStartsWith(attrs, jours, DOMAIN Snapshots(attrs, jours), DOMAIN attrs, DOMAIN jours)

AgeValues == {19, 20, 21, 29, 30, 31, 39, 40, 41, 49, 50, 51}

\* participants of every age around the bin edges
InitAges ==
    \E n \in 0..MaxRows : \E ages \in [1..n -> AgeValues] :
        AppStartsComplete(
            AppAttributeTables([i \in 1..n |-> [participantId |-> i, age |-> ages[i], haveKids |-> (i = 1),
                                                 educationLevel |-> IF i = 2 THEN "Graduate" ELSE "Bachelors"]],
                               AppBuildings),
            AppJournalTables(AppSocialNetwork))

SpecAges == InitAges /\ [][NextStartup]_vars

ParticipantViewsBuilt == appPc \in {"participantViews", "socialGraph", "locations", "layouts", "serving"}

\* the age group of the half-open bins [20,30) [30,40) [40,50)
HalfOpenGroup(a) ==
    IF 20 <= a /\ a < 30 THEN "20-29"
    ELSE IF 30 <= a /\ a < 40 THEN "30-39"
    ELSE IF 40 <= a /\ a < 50 THEN "40-49"
    ELSE NaN

\* C2 as stated: the age group of every participant is the one of the half-open
\* bins: "20-29" iff 20 <= age < 30, "30-39" iff 30 <= age < 40, "40-49" iff
\* 40 <= age < 50, none otherwise.
C2_AsClaimed ==
    ParticipantViewsBuilt =>
        \A i \in DOMAIN appAttributes[ParticipantsCsv] :
            appAttributes[ParticipantsCsv][i].ageGroup = HalfOpenGroup(appAttributes[ParticipantsCsv][i].age)

----------------------------------------------------------------------------
(* The social networks of NumParticipants participants on a ring *)

Participants == 1..NumParticipants
NextOnRing(p) == (p % NumParticipants) + 1

Run(from, to, events) == [participantIdFrom |-> from, participantIdTo |-> to, events |-> events]

\* every participant sends WeightThreshold events to the next one, those of
\* `more` one event more, later in the journal
RingAtThreshold(more) ==
    [i \in Participants |-> Run(i, NextOnRing(i), WeightThreshold)]
    \o FlattenSeq([i \in Participants |-> IF i \in more THEN <<Run(i, NextOnRing(i), 1)>> ELSE <<>>])

\* every participant sends to the next one, those of `more` also one event to
\* the one after
RingWithChords(more) ==
    FlattenSeq([i \in Participants |->
        <<Run(i, NextOnRing(i), WeightThreshold + 1)>>
        \o (IF i \in more THEN <<Run(i, NextOnRing(NextOnRing(i)), 1)>> ELSE <<>>)])

\* only the participants of `senders` send
RingOfSenders(senders) ==
    FlattenSeq([i \in Participants |->
        IF i \in senders THEN <<Run(i, NextOnRing(i), WeightThreshold + 1)>> ELSE <<>>])

\* the sets of participants that are all but at most MaxDeviating participants,
\* or at most MaxDeviating participants
Groups ==
    LET few == {g \in SUBSET Participants : Cardinality(g) <= MaxDeviating}
    IN few \cup {Participants \ g : g \in few}

SocialNetworks ==
    {RingAtThreshold(more) : more \in Groups}
    \cup {RingWithChords(more) : more \in Groups}
    \cup {RingOfSenders(senders) : senders \in Groups}

InitGraph ==
    \E socialNetwork \in SocialNetworks :
        AppStartsComplete(AppAttributeTables(AppParticipants, AppBuildings), AppJournalTables(socialNetwork))

SpecGraph == InitGraph /\ [][NextStartup]_vars

GraphBuilt == appPc \in {"socialGraph", "locations", "layouts", "serving"}

\* the number of events of the journal from participant f to participant t
EventsBetween(f, t) ==
    LET journal == appJournals[SocialNetworkCsv]
        events == [i \in DOMAIN journal |-> journal[i].events]
    IN SumOver({i \in DOMAIN journal : journal[i].participantIdFrom = f /\ journal[i].participantIdTo = t},
               events)

\* the number of events each participant sent, as a tuple indexed by participant
EventsSent ==
    LET journal == appJournals[SocialNetworkCsv]
        events == [i \in DOMAIN journal |-> journal[i].events]
    IN <<>> \o [p \in Participants |-> SumOver({i \in DOMAIN journal : journal[i].participantIdFrom = p}, events)]

\* the pairs of the journal with their numbers of events
JournalPairs ==
    LET journal == appJournals[SocialNetworkCsv]
    IN {<<pair[1], pair[2], EventsBetween(pair[1], pair[2])>> :
           pair \in {<<journal[i].participantIdFrom, journal[i].participantIdTo>> : i \in DOMAIN journal}}

Top == Range(aggregates.topParticipants)

RenderedNodes == {el.data.id : el \in {x \in aggregates.elements : "id" \in DOMAIN x.data}}
RenderedEdges ==
    {<<el.data.source, el.data.target, el.data.weight>> :
        el \in {x \in aggregates.elements : "source" \in DOMAIN x.data}}

----------------------------------------------------------------------------
(* Building locations *)

MaxShortBody == 3
BodyChars == {"1", ".", " ", "b"}
Bodies == UNION {[1..n -> BodyChars] : n \in 0..MaxBody}

\* one building table has a second row with any text inside POINT ( )
InitLocations ==
    \E body \in Bodies : \E f \in Range(BuildingFiles) :
        /\ f = PubsCsv \/ Len(body) <= MaxShortBody
        /\ AppStartsComplete(
              AppAttributeTables(AppParticipants,
                                 [g \in Range(BuildingFiles) |->
                                     IF g = f THEN AppBuildings[g] \o <<[location |-> Location(body)]>>
                                     ELSE AppBuildings[g]]),
              AppJournalTables(AppSocialNetwork))

SpecLocations == InitLocations /\ [][NextStartup]_vars

LocationsBuilt == appPc \in {"locations", "layouts", "serving"}

\* the text between "POINT (" and ")"
Inside(location) == SubSeq(location, Len(Location(<<>>)), Len(location) - 1)

\* the text inside the wrapper is two numbers separated by spaces
TwoNumbers(location) ==
    LET tokens == SelectSeq(split(Inside(location), " "), LAMBDA t : t # <<>>)
    IN Len(tokens) = 2 /\ IsFloatText(tokens[1]) /\ IsFloatText(tokens[2])

\* C5 as stated: a location whose text inside the POINT wrapper is not exactly
\* two numbers makes the construction of the building locations raise: no
\* table of building locations is built from it.
C5_AsClaimed ==
    LocationsBuilt =>
        \A i \in DOMAIN BuildingFiles : \A r \in DOMAIN appAttributes[BuildingFiles[i]] :
            TwoNumbers(appAttributes[BuildingFiles[i]][r].location)

----------------------------------------------------------------------------
(* The start of the dashboard and its requests *)

EmployersCsv == <<"Employers", ".csv">>
BadBodies == {<<"b">>, <<"1", " ", "b">>, <<>>, <<"1">>}

StartupAttributes == AppAttributeTables(AppParticipants, AppBuildings)
StartupJournals == AppJournalTables(AppSocialNetwork)

\* a complete working directory; one snapshot file absent; one CSV file absent
\* from a dataset directory, or one more than the ETL run saw; one building
\* location that is not two numbers
InitStartup ==
    \/ AppStartsComplete(StartupAttributes, StartupJournals)
    \/ \E n \in DOMAIN Snapshots(StartupAttributes, StartupJournals) :
          AppStartsWith(StartupAttributes, StartupJournals,
                        DOMAIN Snapshots(StartupAttributes, StartupJournals) \ {n},
                        DOMAIN StartupAttributes, DOMAIN StartupJournals)
    \/ \E f \in DOMAIN StartupAttributes \cup {EmployersCsv} :
          AppStartsWith(StartupAttributes, StartupJournals,
                        DOMAIN Snapshots(StartupAttributes, StartupJournals),
                        IF f = EmployersCsv THEN DOMAIN StartupAttributes \cup {f}
                        ELSE DOMAIN StartupAttributes \ {f},
                        DOMAIN StartupJournals)
    \/ \E f \in DOMAIN StartupJournals :
          AppStartsWith(StartupAttributes, StartupJournals,
                        DOMAIN Snapshots(StartupAttributes, StartupJournals),
                        DOMAIN StartupAttributes, DOMAIN StartupJournals \ {f})
    \/ \E body \in BadBodies : \E f \in Range(BuildingFiles) :
          AppStartsComplete(
              AppAttributeTables(AppParticipants,
                                 [g \in Range(BuildingFiles) |->
                                     IF g = f THEN <<[location |-> Location(body)]>> ELSE AppBuildings[g]]),
              StartupJournals)

SpecStartup == InitStartup /\ [][NextApp]_vars

Serving == appPc = "serving"

\* C1: the router answers every path, also a missing or unknown one, with
\* exactly one page: the three dashboard paths with their dashboards, any other
\* value with the home page; it never fails and never answers with nothing.
C1_RouterTotal ==
    Serving =>
        /\ \A pathname \in Paths : ENABLED (DisplayPage /\ url' = pathname)
        /\ pageContent # NoDocument =>
              /\ url \in Paths
              /\ pageContent.title =
                    CASE url = "/participantDashboard" -> "Participant Dashboard"
                      [] url = "/socialActivityDashboard" -> "Social Activity Dashboard"
                      [] url = "/businessDashboard" -> "Business Dashboard"
                      [] OTHER -> "Welcome to the Data Insights Dashboard"
              /\ pageContent \in {layouts.homePage, layouts.participantDashboardLayout,
                                  layouts.socialActivityDashboardLayout, layouts.businessDashboard}

\* C1 witness: a request for a path that is no dashboard was answered with the home page
C1_Witness ==
    /\ Serving
    /\ url = "/unknown"
    /\ pageContent = layouts.homePage
    /\ pageContent.title = "Welcome to the Data Insights Dashboard"

\* every snapshot the dashboard opens is there, and the tables it reads by name are loaded
StartupFilesThere ==
    /\ {StatusLogsPkl, KidCountsPkl} \subseteq DOMAIN cache
    /\ \A f \in CsvFiles(attributesDir) : appAttributesPkl(f) \in DOMAIN cache
    /\ \A f \in CsvFiles(journalsDir) : appJournalsPkl(f) \in DOMAIN cache
    /\ {ParticipantsCsv, JobsCsv} \cup Range(BuildingFiles) \subseteq CsvFiles(attributesDir)
    /\ {SocialNetworkCsv, FinancialJournalCsv} \subseteq CsvFiles(journalsDir)

\* C7: the dashboard serves, and answers a request, only after every startup
\* step has succeeded: with a snapshot file or a table missing it ends without
\* serving anything, serves no partial dashboard, and neither writes a
\* snapshot nor runs the ETL again.
C7_ServesOnlyAfterStartup ==
    /\ [](Serving \/ pageContent # NoDocument =>
            /\ StartupFilesThere
            /\ opened = DOMAIN cache
            /\ aggregates.kidCounts # <<>> /\ aggregates.elements # {} /\ aggregates.finalDf # <<>>
            /\ layouts = Layouts)
    /\ [](appPc = "aborted" => pageContent = NoDocument /\ url = NoPath /\ layouts = <<>>)
    /\ [][appPc = "aborted" => appPc' = "aborted"]_vars
    /\ [][cache' = cache /\ writeLog' = writeLog /\ etlPc' = etlPc]_vars

\* C7 witness: the snapshot of the household kid counts is missing; the
\* dashboard ended after it had opened the other snapshots
C7_Witness ==
    /\ appPc = "aborted"
    /\ KidCountsPkl \notin DOMAIN cache
    /\ StatusLogsPkl \in opened
    /\ pageContent = NoDocument

\* C8: a request changes nothing but the page shown: the tables, the derived
\* views, the layouts and the files stay as startup left them, so the page for
\* a path is the same whatever was requested before.
C8_RequestsReadOnly ==
    /\ [][Serving => (appPc' = appPc /\ appData' = appData /\ cache' = cache
                         /\ UNCHANGED <<fsVars, writeLog, etlVars, opened>>)]_vars
    /\ [](Serving => layouts = Layouts)
    /\ [](Serving /\ pageContent # NoDocument => pageContent = displayPage(url))
    /\ [][(Serving /\ pageContent # NoDocument /\ url' = url) => pageContent' = pageContent]_vars

\* C8 witness: the business dashboard has been requested and shown, the
\* derived views as startup computed them
C8_Witness ==
    /\ Serving
    /\ url = "/businessDashboard"
    /\ pageContent = layouts.businessDashboard
    /\ pageContent.content = <<aggregates.degreeCounts, aggregates.finalDf>>

====
